---- MODULE Spec2Model ----
(***************************************************************************)
(* A model of the mpp assembler: the token model (intel/token.rs), the     *)
(* instruction encoder (intel/instruction.rs), the lexer (lexer.rs), the   *)
(* two-pass parser (parser.rs) and the threaded driver (assembly.rs).      *)
(*                                                                         *)
(* Text is a sequence of one-character strings; a source is the sequence   *)
(* of its lines, as `str::lines` yields them.  Option values are << >>     *)
(* (None) and <<v>> (Some(v)); Result values are <<"Ok", v>> and           *)
(* <<"Err", e>>.                                                           *)
(***************************************************************************)
EXTENDS Integers, Sequences, FiniteSets, TLC

None == << >>
Some(v) == <<v>>
IsSome(o) == o # << >>
Ok(v) == <<"Ok", v>>
Err(e) == <<"Err", e>>
IsOk(r) == r[1] = "Ok"
IsErr(r) == r[1] = "Err"

(***************************************************************************)
(* Characters.                                                             *)
(***************************************************************************)
UpperCase ==
    <<"A","B","C","D","E","F","G","H","I","J","K","L","M",
      "N","O","P","Q","R","S","T","U","V","W","X","Y","Z">>
LowerCase ==
    <<"a","b","c","d","e","f","g","h","i","j","k","l","m",
      "n","o","p","q","r","s","t","u","v","w","x","y","z">>
DigitChars == <<"0","1","2","3","4","5","6","7","8","9">>

InSeq(ch, s) == \E i \in 1..Len(s) : s[i] = ch
IndexOf(ch, s) == CHOOSE i \in 1..Len(s) : s[i] = ch

\* char::to_ascii_lowercase
to_ascii_lowercase(ch) ==
    IF InSeq(ch, UpperCase) THEN LowerCase[IndexOf(ch, UpperCase)] ELSE ch

\* char::to_ascii_uppercase (used only to write sources in another case)
to_ascii_uppercase(ch) ==
    IF InSeq(ch, LowerCase) THEN UpperCase[IndexOf(ch, LowerCase)] ELSE ch

is_ascii_digit(ch) == InSeq(ch, DigitChars)
is_ascii_alphanumeric(ch) ==
    InSeq(ch, DigitChars) \/ InSeq(ch, LowerCase) \/ InSeq(ch, UpperCase)
is_whitespace(ch) == ch \in {" ", "\t"}

\* char::to_digit(radix): the digit's value, or None
DigitValue(c) ==
    IF InSeq(c, DigitChars) THEN IndexOf(c, DigitChars) - 1
    ELSE IF InSeq(c, LowerCase) THEN IndexOf(c, LowerCase) + 9
    ELSE 36
BelowRadix(v, radix) == IF v < radix THEN Some(v) ELSE None
to_digit(ch, radix) == BelowRadix(DigitValue(to_ascii_lowercase(ch)), radix)

Last(s) == s[Len(s)]
Front(s) == SubSeq(s, 1, Len(s) - 1)
MapLower(s) == [i \in 1..Len(s) |-> to_ascii_lowercase(s[i])]
MapUpper(s) == [i \in 1..Len(s) |-> to_ascii_uppercase(s[i])]

(***************************************************************************)
(* intel/token.rs: numbers.                                                *)
(***************************************************************************)
RECURSIVE fold_from(_, _, _, _)
\* the loop of fold_byte from position i with accumulator num
fold_from(s, radix, i, num) ==
    IF i > Len(s) THEN Some(num)
    ELSE IF to_digit(s[i], radix) = None THEN None
    ELSE fold_from(s, radix, i + 1, num * radix + to_digit(s[i], radix)[1])

\* u32 -> u8 (try_into().ok())
try_into_u8(num) ==
    IF num = None THEN None
    ELSE IF num[1] <= 255 THEN num ELSE None

\* fold_byte: the digits in radix, then the narrowing
fold_byte(s, radix) == try_into_u8(fold_from(s, radix, 1, 0))

\* u8::overflowing_neg().0
overflowing_neg(b) == (256 - b) % 256

StartsWith2(s, a, b) == Len(s) >= 2 /\ s[1] = a /\ s[2] = b

\* the radix and the digits `match src.as_bytes()` selects, or None
NumberShape(src) ==
    IF Len(src) >= 1 /\ Last(src) = "b" THEN Some(<<Front(src), 2>>)
    ELSE IF Len(src) >= 1 /\ Last(src) = "d" THEN Some(<<Front(src), 10>>)
    ELSE IF Len(src) >= 1 /\ Last(src) = "h" THEN Some(<<Front(src), 16>>)
    ELSE IF StartsWith2(src, "0", "b") THEN Some(<<SubSeq(src, 3, Len(src)), 2>>)
    ELSE IF StartsWith2(src, "0", "x") THEN Some(<<SubSeq(src, 3, Len(src)), 16>>)
    ELSE None

FoldShape(shape) == IF shape = None THEN None ELSE fold_byte(shape[1][1], shape[1][2])

\* `byte.map(|b| b.overflowing_neg().0)` when the sign is `-`
Complement(is_complement, byte) ==
    IF is_complement /\ byte # None THEN Some(overflowing_neg(byte[1])) ELSE byte

HasSign(text, sign) == Len(text) >= 1 /\ text[1] = sign
Unsigned(text) == IF HasSign(text, "-") \/ HasSign(text, "+") THEN Tail(text) ELSE text

try_to_number(text) == Complement(HasSign(text, "-"), FoldShape(NumberShape(Unsigned(text))))

(***************************************************************************)
(* intel/token.rs: mnemonics, ports, registers, primitives, token kinds.   *)
(***************************************************************************)
MnemonicNames ==
    << <<"a","d","d">>, <<"s","u","b">>, <<"o","r">>, <<"a","n","d">>,
       <<"x","o","r">>, <<"n","o","t">>, <<"m","o","v">>, <<"i","n","c">>,
       <<"j","m","p">>, <<"j","c">>, <<"j","e">>, <<"j","z">>,
       <<"c","a","l","l">>, <<"r","e","t">>, <<"p","u","s","h">>,
       <<"p","o","p">>, <<"p","u","s","h","a">>, <<"p","o","p","a">> >>
MnemonicVariants ==
    <<"Add", "Sub", "Or", "And", "Xor", "Not", "Mov", "Inc",
      "Jmp", "Jmpc", "Jmpz", "Jmpz",
      "Call", "Ret", "Push", "Pop", "Pusha", "Popa">>
Mnemonics == {MnemonicVariants[i] : i \in 1..Len(MnemonicVariants)}
AluMnemonics == {"Add", "Sub", "Or", "And", "Xor", "Not", "Mov", "Inc"}
FlowMnemonics == {"Jmp", "Jmpc", "Jmpz", "Call", "Push", "Pop"}

\* #[derive(FromStr)] #[enumeration(case_insensitive)] on Mnemonic
MnemonicNamed(s) ==
    IF InSeq(s, MnemonicNames)
    THEN Ok(MnemonicVariants[IndexOf(s, MnemonicNames)])
    ELSE Err("NoVariant")
MnemonicFromStr(src) == MnemonicNamed(MapLower(src))

operands_required(mnemonic) ==
    IF mnemonic \in {"Add", "Sub", "Or", "And", "Xor", "Not", "Mov", "Inc"} THEN 2
    ELSE IF mnemonic \in {"Jmp", "Jmpc", "Jmpz", "Call", "Push", "Pop"} THEN 1
    ELSE 0

\* Port::from_str
PortKind(prefix, num) ==
    IF prefix = <<"i","n">> THEN Ok(<<"Input", num>>)
    ELSE IF prefix = <<"o","u","t">> THEN Ok(<<"Output", num>>)
    ELSE Err("UnknownToken")

PortFromStr(src) ==
    IF Len(src) = 0 THEN Err("UnknownToken")
    ELSE IF Last(src) \in {"0", "1", "2", "3"}
    THEN PortKind(Front(src), to_digit(Last(src), 10)[1])
    ELSE IF Last(src) \in {"4", "5", "6", "7", "8", "9"} THEN Err("BadPort")
    ELSE Err("UnknownToken")

port_number(port) == port[2]

WideRegisterNames ==
    { <<"r","b","x">>, <<"r","c","x">>, <<"r","d","x">>, <<"r","e","x">>,
      <<"e","b","x">>, <<"e","c","x">>, <<"e","d","x">>, <<"e","e","x">>,
      <<"b","x">>, <<"c","x">>, <<"d","x">>, <<"e","x">> }
HighRegisterNames == { <<"b","h">>, <<"c","h">>, <<"d","h">>, <<"e","h">> }

\* Register::from_str
RegisterFromStr(src) ==
    IF src \in WideRegisterNames THEN Err("BadArchitecture")
    ELSE IF src \in HighRegisterNames THEN Err("HighByte")
    ELSE IF src = <<"b","l">> THEN Ok("B")
    ELSE IF src = <<"c","l">> THEN Ok("C")
    ELSE IF src = <<"d","l">> THEN Ok("D")
    ELSE IF src = <<"e","l">> THEN Ok("E")
    ELSE Err("UnknownToken")

\* Primitive::is_label
is_label(src) ==
    IF Len(src) >= 1 /\ is_ascii_digit(src[1]) THEN FALSE
    ELSE \A i \in 1..Len(src) : is_ascii_alphanumeric(src[i]) \/ src[i] = "_"

\* the byte value of an ASCII character (`*ch` of a quoted literal)
Punctuation == <<" ", "!", "\"", "#", "$", "%", "&", "'", "(", ")", "*", "+", ",", "-", ".", "/">>
AsciiCode(ch) ==
    IF InSeq(ch, LowerCase) THEN 96 + IndexOf(ch, LowerCase)
    ELSE IF InSeq(ch, UpperCase) THEN 64 + IndexOf(ch, UpperCase)
    ELSE IF InSeq(ch, DigitChars) THEN 47 + IndexOf(ch, DigitChars)
    ELSE IF InSeq(ch, Punctuation) THEN 31 + IndexOf(ch, Punctuation)
    ELSE IF ch = ":" THEN 58 ELSE IF ch = ";" THEN 59
    ELSE IF ch = "[" THEN 91 ELSE IF ch = "]" THEN 93
    ELSE IF ch = "_" THEN 95 ELSE 63

IsNumberShape(src) ==
    \/ Len(src) >= 2 /\ src[1] \in {"+", "-"} /\ is_ascii_digit(src[2])
    \/ Len(src) >= 1 /\ is_ascii_digit(src[1])
IsQuotedChar(src) ==
    /\ Len(src) = 3
    /\ \/ src[1] = "\"" /\ src[3] = "\""
       \/ src[1] = "'" /\ src[3] = "'"

\* the last arm of Primitive::from_str, given what the port and the
\* register parsers answered
PortOrRegister(port, reg, src) ==
    IF IsOk(port) THEN Ok(<<"Port", port[2]>>)
    ELSE IF port[2] = "BadPort" THEN Err("BadPort")
    ELSE IF IsOk(reg) THEN Ok(<<"Register", reg[2]>>)
    ELSE IF reg[2] = "UnknownToken" /\ is_label(src) THEN Ok(<<"Label", src>>)
    ELSE IF reg[2] = "UnknownToken" THEN Err("BadLabel")
    ELSE Err(reg[2])

\* the last arm of Primitive::from_str: port, register, label
PrimitiveOther(src) == PortOrRegister(PortFromStr(src), RegisterFromStr(src), src)

\* try_to_number(src).ok_or(BadNumber), then Self::Number
NumberOf(num) == IF num = None THEN Err("BadNumber") ELSE Ok(<<"Number", num[1]>>)

\* the lift of the primitive between `[` and `]`
MemoryOf(inner) ==
    IF IsErr(inner) THEN Err("BadMemory")
    ELSE IF inner[2][1] = "Number" THEN Ok(<<"Memory", inner[2][2]>>)
    ELSE IF inner[2][1] = "Register" THEN Ok(<<"DynamicMemory", inner[2][2]>>)
    ELSE IF inner[2][1] = "Accumulator" THEN Ok(<<"DynamicMemoryAccumulator">>)
    ELSE Err("BadMemory")

RECURSIVE PrimitiveFromStr(_)
\* Primitive::from_str
PrimitiveFromStr(src) ==
    IF IsNumberShape(src) THEN NumberOf(try_to_number(src))
    ELSE IF IsQuotedChar(src) THEN Ok(<<"Number", AsciiCode(src[2])>>)
    ELSE IF src \in { <<"r","a","x">>, <<"e","a","x">>, <<"a","x">> }
    THEN Err("BadArchitecture")
    ELSE IF src = <<"a","h">> THEN Err("HighByte")
    ELSE IF src = <<"a","l">> THEN Ok(<<"Accumulator">>)
    ELSE IF Len(src) >= 2 /\ src[1] = "[" /\ Last(src) = "]"
    THEN MemoryOf(PrimitiveFromStr(SubSeq(src, 2, Len(src) - 1)))
    ELSE PrimitiveOther(src)

\* Self::Operand(src.parse()?)
OperandOf(prim) == IF IsOk(prim) THEN Ok(<<"Operand", prim[2]>>) ELSE prim

\* the last arm of TokenKind::from_str: a mnemonic, else an operand
MnemonicOrOperand(mnemonic, src) ==
    IF IsOk(mnemonic) THEN Ok(<<"Mnemonic", mnemonic[2]>>)
    ELSE OperandOf(PrimitiveFromStr(src))

\* TokenKind::from_str
TokenKindFromStr(src) ==
    IF src = <<",">> THEN Ok(<<"Comma">>)
    ELSE IF Len(src) >= 1 /\ Last(src) = ":"
    THEN IF is_label(Front(src)) THEN Ok(<<"Label", src>>) ELSE Err("BadLabel")
    ELSE MnemonicOrOperand(MnemonicFromStr(src), src)

(***************************************************************************)
(* intel/instruction.rs: the encoder.                                      *)
(***************************************************************************)
RECURSIVE BitAnd(_, _)
\* u8 & u8
BitAnd(a, b) ==
    IF a = 0 \/ b = 0 THEN 0
    ELSE 2 * BitAnd(a \div 2, b \div 2) + (IF a % 2 = 1 /\ b % 2 = 1 THEN 1 ELSE 0)

RECURSIVE BitOr(_, _)
\* u8 | u8
BitOr(a, b) ==
    IF a = 0 THEN b
    ELSE IF b = 0 THEN a
    ELSE 2 * BitOr(a \div 2, b \div 2) + (IF a % 2 = 1 \/ b % 2 = 1 THEN 1 ELSE 0)

\* the literal 0b_aaa_ss_fff
Bin(alu, sel, flow) == alu * 32 + sel * 8 + flow

\* u16::to_be_bytes
to_be_bytes(word) == <<word \div 256, word % 256>>

DECODER_PAGE_TURN == 7

\* Instruction::new
NewInstruction == [decoder_page |-> 0, main |-> 0, rom |-> None, ram |-> None]

encode_main(inst, and, or) ==
    [inst EXCEPT !.main = BitOr(BitAnd(inst.main, and), or)]

\* the (and, or) masks of encode_register
RegisterMasks(reg) ==
    IF reg = "B" THEN <<Bin(7, 0, 7), Bin(0, 0, 0)>>
    ELSE IF reg = "C" THEN <<Bin(7, 1, 7), Bin(0, 1, 0)>>
    ELSE IF reg = "D" THEN <<Bin(7, 2, 7), Bin(0, 2, 0)>>
    ELSE <<Bin(7, 3, 7), Bin(0, 3, 0)>>

encode_register(inst, reg) ==
    encode_main(inst, RegisterMasks(reg)[1], RegisterMasks(reg)[2])

\* the (and, or) masks of a register or port number 0..3
SelectorMasks(n) == <<Bin(7, n, 7), Bin(0, n, 0)>>

\* a port encoding that leaves bits 4-3 as they are
encode_port_number_skipped(inst, port) == inst

encode_port_number(inst, port) ==
    encode_main(inst, SelectorMasks(port_number(port))[1], SelectorMasks(port_number(port))[2])

\* the (and, or) masks of the data flows allowed with ports
PortFlowMasks(port) ==
    IF port[1] = "Output" THEN <<Bin(7, 3, 3), Bin(0, 0, 3)>>
    ELSE <<Bin(7, 3, 6), Bin(0, 0, 6)>>

encode_port(inst, port) ==
    encode_main(encode_port_number(inst, port), PortFlowMasks(port)[1], PortFlowMasks(port)[2])

\* the (and, or, page) row of encode_mnemonic
MnemonicRow(mnemonic) ==
    CASE mnemonic = "Add" -> <<Bin(0, 3, 7), Bin(0, 0, 0), 0>>
      [] mnemonic = "Sub" -> <<Bin(1, 3, 7), Bin(1, 0, 0), 0>>
      [] mnemonic = "And" -> <<Bin(2, 3, 7), Bin(2, 0, 0), 0>>
      [] mnemonic = "Or" -> <<Bin(3, 3, 7), Bin(3, 0, 0), 0>>
      [] mnemonic = "Xor" -> <<Bin(4, 3, 7), Bin(4, 0, 0), 0>>
      [] mnemonic = "Not" -> <<Bin(5, 3, 7), Bin(5, 0, 0), 0>>
      [] mnemonic = "Mov" -> <<Bin(6, 3, 7), Bin(6, 0, 0), 0>>
      [] mnemonic = "Inc" -> <<Bin(7, 3, 7), Bin(7, 0, 0), 0>>
      [] mnemonic = "Jmp" -> <<Bin(7, 3, 3), Bin(0, 0, 3), 1>>
      [] mnemonic = "Jmpc" -> <<Bin(7, 3, 4), Bin(0, 0, 4), 1>>
      [] mnemonic = "Jmpz" -> <<Bin(7, 3, 5), Bin(0, 0, 5), 1>>
      [] mnemonic = "Call" -> <<Bin(7, 3, 6), Bin(0, 0, 6), 1>>
      [] mnemonic = "Ret" -> <<Bin(7, 3, 0), Bin(0, 0, 0), 2>>
      [] mnemonic = "Push" -> <<Bin(7, 3, 3), Bin(0, 0, 3), 2>>
      [] mnemonic = "Pop" -> <<Bin(7, 3, 4), Bin(0, 0, 4), 2>>
      [] mnemonic = "Pusha" -> <<Bin(7, 3, 5), Bin(0, 0, 5), 2>>
      [] mnemonic = "Popa" -> <<Bin(7, 3, 6), Bin(0, 0, 6), 2>>

EncodeRow(inst, row) ==
    encode_main([inst EXCEPT !.decoder_page = row[3]], row[1], row[2])

\* a mnemonic encoding that selects the page and writes no bits
encode_mnemonic_page_only(inst, mnemonic) ==
    [inst EXCEPT !.decoder_page = MnemonicRow(mnemonic)[3]]

encode_mnemonic(inst, mnemonic) == EncodeRow(inst, MnemonicRow(mnemonic))

\* the last two statements of try_encode_data_flow
FinishFlow(inst, and, or, page) ==
    Ok(encode_main([inst EXCEPT !.decoder_page = page], and, or))

try_encode_data_flow(inst, origin, dest) ==
    CASE origin[1] = "Accumulator" ->
            ( CASE dest[1] = "Accumulator" ->
                     FinishFlow(inst, Bin(7, 3, 0), Bin(0, 0, 0), 0)
                [] dest[1] = "Register" ->
                     FinishFlow(encode_register(inst, dest[2]), Bin(7, 3, 1), Bin(0, 0, 1), 0)
                [] dest[1] = "Memory" ->
                     FinishFlow([inst EXCEPT !.ram = Some(dest[2])], Bin(7, 3, 2), Bin(0, 0, 2), 0)
                [] dest[1] = "Port" /\ dest[2][1] = "Output" ->
                     FinishFlow(encode_port(inst, dest[2]), Bin(7, 3, 3), Bin(0, 0, 3), 0)
                [] dest[1] = "DynamicMemory" ->
                     FinishFlow(encode_register(inst, dest[2]), Bin(7, 3, 2), Bin(0, 0, 2), 2)
                [] OTHER -> Err("BadDestination") )
      [] origin[1] = "Register" ->
            IF dest[1] = "Accumulator"
            THEN FinishFlow(encode_register(inst, origin[2]), Bin(7, 3, 4), Bin(0, 0, 4), 0)
            ELSE Err("BadDestination")
      [] origin[1] = "Memory" ->
            IF dest[1] = "Accumulator"
            THEN FinishFlow([inst EXCEPT !.ram = Some(origin[2])], Bin(7, 3, 5), Bin(0, 0, 5), 0)
            ELSE Err("BadDestination")
      [] origin[1] = "Port" /\ origin[2][1] = "Input" ->
            IF dest[1] = "Accumulator"
            THEN FinishFlow(encode_port(inst, origin[2]), Bin(7, 3, 6), Bin(0, 0, 6), 0)
            ELSE Err("BadDestination")
      [] origin[1] = "Number" ->
            ( CASE dest[1] = "Accumulator" ->
                     FinishFlow([inst EXCEPT !.rom = Some(origin[2])],
                                Bin(7, 3, 0), Bin(0, 0, 0), 1)
                [] dest[1] = "Register" ->
                     FinishFlow(encode_register([inst EXCEPT !.rom = Some(origin[2])], dest[2]),
                                Bin(7, 3, 1), Bin(0, 0, 1), 1)
                [] dest[1] = "Memory" ->
                     FinishFlow([inst EXCEPT !.rom = Some(origin[2]), !.ram = Some(dest[2])],
                                Bin(7, 3, 2), Bin(0, 0, 2), 1)
                [] OTHER -> Err("BadDestination") )
      [] origin[1] = "DynamicMemory" ->
            IF dest[1] = "Accumulator"
            THEN FinishFlow(encode_register(inst, origin[2]), Bin(7, 3, 1), Bin(0, 0, 1), 2)
            ELSE Err("BadDestination")
      [] OTHER -> Err("BadOrigin")

\* iter::repeat(byte).take(n)
Repeat(byte, n) == [i \in 1..n |-> byte]

\* a finalization that writes the RAM word before the ROM byte
as_bytes_ram_first(inst) ==
    Append(Repeat(DECODER_PAGE_TURN, inst.decoder_page), inst.main)
        \o (IF inst.ram # None THEN to_be_bytes(inst.ram[1]) ELSE << >>)
        \o (IF inst.rom # None THEN <<inst.rom[1]>> ELSE << >>)

as_bytes(inst) ==
    Append(Repeat(DECODER_PAGE_TURN, inst.decoder_page), inst.main)
        \o (IF inst.rom # None THEN <<inst.rom[1]>> ELSE << >>)
        \o (IF inst.ram # None THEN to_be_bytes(inst.ram[1]) ELSE << >>)

(***************************************************************************)
(* error.rs and parser.rs: pass 1 (translate_buffer) and pass 2            *)
(* (fill_addresses).  A ByteCode cell is <<"Byte", b>> or                  *)
(* <<"Addr", token, label>>; labels_idx is a function from label text to   *)
(* offset.                                                                 *)
(***************************************************************************)
\* AssemblyError::new
AssemblyError(token, code) == [token |-> token, code |-> code]

Byte(b) == <<"Byte", b>>
Addr(token, label) == <<"Addr", token, label>>
AsByteCells(bytes) == [i \in 1..Len(bytes) |-> Byte(bytes[i])]

\* `len as u16`
as_u16(n) == n % 65536

\* HashMap::insert: the map afterwards
MapInsert(map, key, value) ==
    [k \in DOMAIN map \cup {key} |-> IF k = key THEN value ELSE map[k]]

\* the locals of translate_buffer before its token loop
LineStart(labels_idx) ==
    [ operands_req |-> 0, operands_found |-> 0, operands |-> << >>,
      stmt_mnemonic |-> None, labels_idx |-> labels_idx,
      outcome |-> "Ok", err |-> None ]

Throw(st, token, code) ==
    [st EXCEPT !.outcome = "Err", !.err = Some(AssemblyError(token, code))]

\* parser.rs 50-52: labels_idx.insert(label, byte_code.len() as u16)
Inserted(st, label, byte_code) ==
    [st EXCEPT !.labels_idx = MapInsert(st.labels_idx, label, as_u16(Len(byte_code)))]

\* a Label arm that lets the later definition replace the earlier one
LabelStepReplacing(st, token, byte_code) == Inserted(st, token.kind[2], byte_code)

\* parser.rs 49-56: the Label arm
LabelStep(st, token, byte_code) ==
    IF token.kind[2] \in DOMAIN st.labels_idx
    THEN Throw(Inserted(st, token.kind[2], byte_code), token, <<"RedefinedLabel">>)
    ELSE Inserted(st, token.kind[2], byte_code)

\* parser.rs 68-77: the Comma arm
CommaStep(st, token) ==
    IF st.stmt_mnemonic = None
    THEN Throw(st, token, <<"NoMnemonic">>)
    ELSE IF st.operands_req = st.operands_found
    THEN Throw(st, st.stmt_mnemonic[1][1], <<"ExcessiveOperands", st.operands_req>>)
    ELSE IF st.operands_found = 0
    THEN Throw(st, token, <<"UnexpectedComma">>)
    ELSE st

\* one iteration of `for token in buffer.drain(..)`
TokenStep(st, token, byte_code) ==
    CASE token.kind[1] = "Label" -> LabelStep(st, token, byte_code)
      [] token.kind[1] = "Mnemonic" ->
            IF st.stmt_mnemonic # None
            THEN Throw(st, token, <<"MultipleMnemonics">>)
            ELSE [st EXCEPT !.operands_req = operands_required(token.kind[2]),
                            !.stmt_mnemonic = Some(<<token, token.kind[2]>>)]
      [] token.kind[1] = "Operand" ->
            IF st.operands_found >= 2
            THEN [st EXCEPT !.outcome = "Panic"]
            ELSE [st EXCEPT !.operands = Append(st.operands, <<token, token.kind[2]>>),
                            !.operands_found = st.operands_found + 1]
      [] token.kind[1] = "Comma" -> CommaStep(st, token)
      [] OTHER -> [st EXCEPT !.outcome = "Panic"]

RECURSIVE TokenLoop(_, _, _, _)
\* the token loop of translate_buffer from the i-th token of the buffer
TokenLoop(st, buffer, i, byte_code) ==
    IF i > Len(buffer) \/ st.outcome # "Ok" THEN st
    ELSE TokenLoop(TokenStep(st, buffer[i], byte_code), buffer, i + 1, byte_code)

\* parser.rs 94-104: the arm of two operands, given the encoder's answer
\* an attribution that blames the origin token whatever the error is
EmitDataFlowOnOrigin(flow, origin_token, dest_token) ==
    IF IsOk(flow) THEN Ok(AsByteCells(as_bytes(flow[2])))
    ELSE Err(AssemblyError(origin_token, <<flow[2]>>))

EmitDataFlow(flow, origin_token, dest_token) ==
    IF IsOk(flow) THEN Ok(AsByteCells(as_bytes(flow[2])))
    ELSE IF flow[2] = "BadOrigin"
    THEN Err(AssemblyError(origin_token, <<"BadOrigin">>))
    ELSE Err(AssemblyError(dest_token, <<"BadDestination">>))

\* parser.rs 92-114: `match operands` for the instruction inst
EmitOperands(inst, operands, mnemonic_token) ==
    IF Len(operands) = 2
    THEN EmitDataFlow(try_encode_data_flow(inst, operands[2][2], operands[1][2]),
                      operands[2][1], operands[1][1])
    ELSE IF Len(operands) = 1
    THEN IF operands[1][2][1] = "Label"
         THEN Ok(Append(AsByteCells(as_bytes(inst)),
                        Addr(operands[1][1], operands[1][2][2])))
         ELSE Err(AssemblyError(mnemonic_token, <<"NoLabel">>))
    ELSE Ok(<< >>)

\* parser.rs 81-115, the part of translate_buffer after its token loop:
\* the cells to append, or the error
Emit(st) ==
    IF st.stmt_mnemonic = None THEN Ok(<< >>)
    ELSE IF st.operands_found # st.operands_req
    THEN Err(AssemblyError(st.stmt_mnemonic[1][1],
                <<"NotEnoughOperands", st.operands_found, st.operands_req>>))
    ELSE EmitOperands(encode_mnemonic(NewInstruction, st.stmt_mnemonic[1][2]),
                      st.operands, st.stmt_mnemonic[1][1])

\* what translate_buffer leaves, given its loop's state and what it emits
AfterLine(st, emitted, byte_code) ==
    IF st.outcome # "Ok"
    THEN [outcome |-> st.outcome, err |-> st.err,
          byte_code |-> byte_code, labels_idx |-> st.labels_idx]
    ELSE IF IsErr(emitted)
    THEN [outcome |-> "Err", err |-> Some(emitted[2]),
          byte_code |-> byte_code, labels_idx |-> st.labels_idx]
    ELSE [outcome |-> "Ok", err |-> None,
          byte_code |-> byte_code \o emitted[2], labels_idx |-> st.labels_idx]

EmitAfter(st, byte_code) ==
    AfterLine(st, IF st.outcome = "Ok" THEN Emit(st) ELSE Ok(<< >>), byte_code)

\* translate_buffer: [outcome, err, byte_code, labels_idx] after one line
translate_buffer(buffer, byte_code, labels_idx) ==
    EmitAfter(TokenLoop(LineStart(labels_idx), buffer, 1, byte_code), byte_code)

RECURSIVE FillFrom(_, _, _, _)
\* the loop of fill_addresses from the i-th cell
FillFrom(byte_code, labels_idx, i, final_byte_code) ==
    IF i > Len(byte_code) THEN Ok(final_byte_code)
    ELSE IF byte_code[i][1] = "Byte"
    THEN FillFrom(byte_code, labels_idx, i + 1, Append(final_byte_code, byte_code[i][2]))
    ELSE IF byte_code[i][3] \in DOMAIN labels_idx
    THEN FillFrom(byte_code, labels_idx, i + 1,
                  final_byte_code \o to_be_bytes(labels_idx[byte_code[i][3]]))
    ELSE Err(AssemblyError(byte_code[i][2], <<"UnknownLabel", byte_code[i][3]>>))

fill_addresses(byte_code, labels_idx) == FillFrom(byte_code, labels_idx, 1, << >>)

(***************************************************************************)
(* The state: one call of Assembly::assemble(src) (assembly.rs), with the  *)
(* lexer thread (lexer.rs), the channel between the two threads, and the   *)
(* main thread running parser::eval and then the join.                     *)
(***************************************************************************)
VARIABLES
    overflow_checks, \* the build panics on integer overflow (else it wraps)
    src,        \* the lines of the source being assembled
    pending,    \* the sources of the calls of assemble still to come
    returned,   \* the calls of assemble already over: [src, result]
    lexer,      \* the lexer thread: pc, line_no, col, token, ret
    chan,       \* the items sent and not yet received
    rx_alive,   \* the Receiver has not been dropped
    parser,     \* the main thread: pc, pass, buffer, byte_code, labels_idx, data
    result,     \* what assemble returned, None while it runs
    sent,       \* history: every item sent, with the lexer's place
    stmts,      \* history: every buffer handed to translate_buffer
    enc,        \* an Instruction going through the encoder
    num,        \* a number literal going through Primitive::from_str
    tok,        \* a word going through TokenKind::from_str
    assembly,   \* an Assembly in its owner's hands: data, path, live
    disk,       \* the files written by fs::write: [path, contents]
    calls       \* history: the methods called on the Assembly

vars == <<overflow_checks, src, pending, returned, lexer, chan, rx_alive, parser, result,
          sent, stmts, enc, num, tok, assembly, disk, calls>>

EOL == Err("EOL")

\* Token { kind, span, line }
Token(kind, span, line) == [kind |-> kind, span |-> span, line |-> line]

\* Token::try_send up to the send itself: the result, the accumulator
\* afterwards and the items handed to the channel
SendKind(kind, token, span, line) ==
    IF token = << >> THEN [res |-> Ok(<< >>), token |-> token, items |-> << >>]
    ELSE IF IsErr(kind)
    THEN [res |-> Err(<<Token(<<"Error">>, span, line), kind[2]>>),
          token |-> token, items |-> << >>]
    ELSE [res |-> Ok(<< >>), token |-> << >>,
          items |-> <<Ok(Token(kind[2], span, line))>>]

try_send(token, span, line) ==
    SendKind(IF token = << >> THEN Err("Empty") ELSE TokenKindFromStr(token),
             token, span, line)

\* the state of both threads when assemble is entered
LexerStart ==
    [pc |-> "scan", line_no |-> 1, col |-> 0, token |-> << >>, ret |-> None,
     panic |-> None]
ParserStart ==
    [pc |-> "eval", pass |-> 1, buffer |-> << >>, byte_code |-> << >>,
     labels_idx |-> << >>, data |-> << >>]

Line == src[lexer.line_no]
Scanning == lexer.pc = "scan" /\ lexer.line_no <= Len(src)
\* line.chars().chain(once(' ')) at col
Ch == IF lexer.col < Len(Line) THEN Line[lexer.col + 1] ELSE " "
Span == <<lexer.col - Len(lexer.token), lexer.col>>

Stamp(items) ==
    [i \in 1..Len(items) |->
        [item |-> items[i], line_no |-> lexer.line_no, col |-> lexer.col]]

\* the lexer panics with the message: the thread unwinds and its Sender is dropped
LexPanic(message) ==
    /\ lexer' = [lexer EXCEPT !.pc = "panic", !.panic = Some(message)]
    /\ UNCHANGED <<chan, sent>>

\* token.rs 69-71 and lexer.rs 31: .expect on a send to a dropped Receiver
ParserStopped == "parser stopped unexpectedly"

\* the end of one iteration of the character loop: the items are sent
\* (a send to a dropped Receiver panics), an Err attempt returns from scan,
\* a comment or the end of the line leaves the loop
LexAdvance(items, token, attempt, skip_rest_of_line) ==
    IF items # << >> /\ ~rx_alive THEN LexPanic(ParserStopped)
    ELSE /\ chan' = chan \o items
         /\ sent' = sent \o Stamp(items)
         /\ lexer' =
              IF IsErr(attempt)
              THEN [lexer EXCEPT !.pc = "err", !.token = token,
                       !.ret = Some(Err(AssemblyError(attempt[2][1],
                                                       <<"Token", attempt[2][2]>>)))]
              ELSE IF skip_rest_of_line \/ lexer.col >= Len(Line)
              THEN [lexer EXCEPT !.pc = "eol", !.token = token]
              ELSE [lexer EXCEPT !.col = lexer.col + 1, !.token = token]

\* the iteration ends after the one try_send t
LexFlush(t, skip_rest_of_line) == LexAdvance(t.items, t.token, t.res, skip_rest_of_line)

\* a `;` that ends the token and not the line
LexSemicolonAsSpace ==
    /\ Scanning /\ Ch = ";"
    /\ LexFlush(try_send(lexer.token, Span, lexer.line_no), FALSE)
    /\ UNCHANGED <<assembly, disk, calls, tok, overflow_checks, src, pending, returned, rx_alive, parser, result,
                   stmts, enc, num>>

\* lexer.rs 13-16
LexSemicolon ==
    /\ Scanning /\ Ch = ";"
    /\ LexFlush(try_send(lexer.token, Span, lexer.line_no), TRUE)
    /\ UNCHANGED <<assembly, disk, calls, tok, overflow_checks, src, pending, returned, rx_alive, parser, result, stmts, enc, num>>

\* lexer.rs 23
LexWhitespace ==
    /\ Scanning /\ is_whitespace(Ch)
    /\ LexFlush(try_send(lexer.token, Span, lexer.line_no), FALSE)
    /\ UNCHANGED <<assembly, disk, calls, tok, overflow_checks, src, pending, returned, rx_alive, parser, result, stmts, enc, num>>

\* a push of the character as it is written
LexPushAsWritten ==
    /\ Scanning /\ Ch # ";" /\ Ch # "," /\ ~is_whitespace(Ch)
    /\ LexAdvance(<< >>, Append(lexer.token, Ch), Ok(<< >>), FALSE)
    /\ UNCHANGED <<assembly, disk, calls, tok, overflow_checks, src, pending, returned, rx_alive, parser, result,
                   stmts, enc, num>>

\* lexer.rs 24
LexPush ==
    /\ Scanning /\ Ch # ";" /\ Ch # "," /\ ~is_whitespace(Ch)
    /\ LexAdvance(<< >>, Append(lexer.token, to_ascii_lowercase(Ch)), Ok(<< >>), FALSE)
    /\ UNCHANGED <<assembly, disk, calls, tok, overflow_checks, src, pending, returned, rx_alive, parser, result, stmts, enc, num>>

\* lexer.rs 17-22 with the comma's span start col - 1 given: the flush, the
\* push of the comma, the second try_send and its unwrap
LexCommaBoth(res, comma) ==
    IF res.items # << >> /\ ~rx_alive THEN LexPanic(ParserStopped)
    ELSE IF IsErr(comma.res) THEN LexPanic("unwrap on an Err value")
    ELSE LexAdvance(res.items \o comma.items, comma.token, res.res, FALSE)

LexCommaAfter(res, comma_start) ==
    LexCommaBoth(res, try_send(Append(res.token, ","), <<comma_start, lexer.col>>,
                               lexer.line_no))

LexCommaWith(comma_start) ==
    LexCommaAfter(try_send(lexer.token, Span, lexer.line_no), comma_start)

\* lexer.rs 17-22.  `col - 1` at col = 0 overflows usize: a build with
\* overflow checks panics there, one without wraps to usize::MAX, written
\* -1 (its value modulo 2^64).  Which build runs is fixed in Init.
LexComma ==
    /\ Scanning /\ Ch = ","
    /\ \/ lexer.col > 0 /\ LexCommaWith(lexer.col - 1)
       \/ lexer.col = 0 /\ ~overflow_checks /\ LexCommaWith(-1)
       \/ lexer.col = 0 /\ overflow_checks /\ LexPanic("attempt to subtract with overflow")
    /\ UNCHANGED <<assembly, disk, calls, tok, overflow_checks, src, pending, returned, rx_alive, parser, result, stmts, enc, num>>

\* lexer.rs 31
LexEndOfLine ==
    /\ lexer.pc = "eol"
    /\ IF ~rx_alive THEN LexPanic(ParserStopped)
       ELSE /\ chan' = Append(chan, EOL)
            /\ sent' = sent \o Stamp(<<EOL>>)
            /\ lexer' = [lexer EXCEPT !.pc = "scan", !.line_no = lexer.line_no + 1,
                                       !.col = 0]
    /\ UNCHANGED <<assembly, disk, calls, tok, overflow_checks, src, pending, returned, rx_alive, parser, result, stmts, enc, num>>

\* lexer.rs 10 and 33: no line is left, scan returns Ok(())
LexReturn ==
    /\ lexer.pc = "scan" /\ lexer.line_no > Len(src)
    /\ lexer' = [lexer EXCEPT !.pc = "done", !.ret = Some(Ok(<< >>))]
    /\ UNCHANGED <<assembly, disk, calls, tok, overflow_checks, src, pending, returned, chan, rx_alive, parser, result,
                   sent, stmts, enc, num>>

\* the lexer thread still holds its Sender
SenderAlive == lexer.pc \in {"scan", "eol"}

\* `buffer.drain(..)`: what is left of the buffer after translate_buffer
Drained(buffer) == << >>

\* eval returns (or unwinds): its Receiver is dropped with what it holds
DropReceiver ==
    /\ rx_alive' = FALSE
    /\ chan' = << >>

\* parser.rs 19-21: an Ok(token) is received and buffered
ParserRecvToken ==
    /\ parser.pc = "eval" /\ chan # << >> /\ IsOk(Head(chan))
    /\ parser' = [parser EXCEPT !.buffer = Append(parser.buffer, Head(chan)[2])]
    /\ chan' = Tail(chan)
    /\ UNCHANGED <<assembly, disk, calls, tok, overflow_checks, src, pending, returned, lexer, rx_alive, result, sent, stmts, enc, num>>

\* the main thread after translate_buffer answered r
Translated(r) ==
    IF r.outcome = "Ok"
    THEN /\ parser' = [parser EXCEPT !.buffer = Drained(parser.buffer),
                                     !.byte_code = r.byte_code,
                                     !.labels_idx = r.labels_idx]
         /\ chan' = Tail(chan)
         /\ UNCHANGED <<rx_alive, result>>
    ELSE /\ parser' = [parser EXCEPT !.pc = "returned",
                                     !.buffer = Drained(parser.buffer),
                                     !.labels_idx = r.labels_idx]
         /\ result' = IF r.outcome = "Err" THEN Some(Err(r.err[1]))
                                           ELSE Some(<<"Panic", "parser">>)
         /\ DropReceiver

\* parser.rs 22 and assembly.rs 18: a sentinel is received and the line is
\* translated; an error leaves eval and, by `?`, assemble
ParserRecvEOL ==
    /\ parser.pc = "eval" /\ chan # << >> /\ Head(chan) = EOL
    /\ stmts' = Append(stmts, parser.buffer)
    /\ Translated(translate_buffer(parser.buffer, parser.byte_code, parser.labels_idx))
    /\ UNCHANGED <<assembly, disk, calls, tok, overflow_checks, src, pending, returned, lexer, sent, enc, num>>

\* the main thread after fill_addresses answered filled
Filled(filled) ==
    IF IsOk(filled)
    THEN /\ parser' = [parser EXCEPT !.pc = "join", !.pass = 2, !.data = filled[2]]
         /\ UNCHANGED result
    ELSE /\ parser' = [parser EXCEPT !.pc = "returned", !.pass = 2]
         /\ result' = Some(filled)

\* a pass 1 that takes an empty channel for a closed one
ParserCloseWhenEmpty ==
    /\ parser.pc = "eval" /\ chan = << >>
    /\ Filled(fill_addresses(parser.byte_code, parser.labels_idx))
    /\ DropReceiver
    /\ UNCHANGED <<assembly, disk, calls, tok, overflow_checks, src, pending, returned, lexer, sent, stmts, enc, num>>

\* parser.rs 19 and 25: the channel is empty and its Sender dropped, the
\* loop ends and pass 2 runs; assembly.rs 18: an error leaves assemble
ParserClose ==
    /\ parser.pc = "eval" /\ chan = << >> /\ ~SenderAlive
    /\ Filled(fill_addresses(parser.byte_code, parser.labels_idx))
    /\ DropReceiver
    /\ UNCHANGED <<assembly, disk, calls, tok, overflow_checks, src, pending, returned, lexer, sent, stmts, enc, num>>

\* assembly.rs 19-20: join the lexer, return its error or the Assembly
Join ==
    /\ parser.pc = "join" /\ ~SenderAlive
    /\ result' = IF lexer.pc = "panic" THEN Some(<<"Panic", "lexer stopped unexpectedly">>)
                 ELSE IF lexer.pc = "err" THEN Some(lexer.ret[1])
                 ELSE Some(Ok(parser.data))
    /\ parser' = [parser EXCEPT !.pc = "returned"]
    /\ UNCHANGED <<assembly, disk, calls, tok, overflow_checks, src, pending, returned, lexer, chan, rx_alive, sent, stmts, enc, num>>

\* assembly.rs 15-17: assemble is entered with source s
Enter(s) ==
    /\ src' = s
    /\ lexer' = LexerStart
    /\ parser' = ParserStart
    /\ chan' = << >>
    /\ rx_alive' = TRUE
    /\ result' = None
    /\ sent' = << >>
    /\ stmts' = << >>

\* a caller assembles the next source once the call before has returned
NextCall ==
    /\ result # None /\ result[1][1] # "Panic" /\ pending # << >>
    /\ returned' = Append(returned, [src |-> src, result |-> result[1]])
    /\ pending' = Tail(pending)
    /\ Enter(Head(pending))
    /\ UNCHANGED <<assembly, disk, calls, tok, overflow_checks, enc, num>>

(***************************************************************************)
(* The sources assembled.  A line is written as a sequence of pieces       *)
(* (words and separators); Render gives its characters.                    *)
(***************************************************************************)
MaxOperands == 3
MaxLines == 2

RECURSIVE Concat(_)
Concat(pieces) == IF pieces = << >> THEN << >> ELSE Head(pieces) \o Concat(Tail(pieces))

RECURSIVE SeqsUpTo(_, _)
\* the sequences of at most n elements of S
SeqsUpTo(S, n) ==
    IF n = 0 THEN {<< >>}
    ELSE {<< >>} \cup {<<x>> \o q : q \in SeqsUpTo(S, n - 1), x \in S}

SP == <<" ">>
TAB == <<"\t">>
COMMA == <<",">>
W_mov == <<"m","o","v">>
W_add == <<"a","d","d">>
W_jz == <<"j","z">>
W_jmp == <<"j","m","p">>
W_ret == <<"r","e","t">>
W_al == <<"a","l">>
W_bl == <<"b","l">>
W_cl == <<"c","l">>
W_x == <<"x">>
W_y == <<"y">>
W_xdef == <<"x",":">>
W_ydef == <<"y",":">>
W_1d == <<"1","d">>

\* family A: one statement, [mnemonic operand*], with or without commas
ShapeMnemonics == {W_mov, W_jz, W_ret}
ShapeOperands == {W_al, W_bl, W_cl, W_x}

RECURSIVE OperandList(_, _)
\* the operands written one after the other, separated by sep
OperandList(ops, sep) ==
    IF ops = << >> THEN << >>
    ELSE IF Len(ops) = 1 THEN Head(ops)
    ELSE Head(ops) \o sep \o OperandList(Tail(ops), sep)

Statement(m, ops, sep) == IF ops = << >> THEN m ELSE m \o SP \o OperandList(ops, sep)

ShapeSources ==
    { <<Statement(m, ops, sep)>> :
        m \in ShapeMnemonics,
        ops \in SeqsUpTo(ShapeOperands, MaxOperands),
        sep \in {SP, COMMA \o SP} }

\* family B: up to MaxLines lines, each [label definition] [statement]
LabelDefs == {<< >>, W_xdef, W_ydef}
LabelStatements ==
    { << >>, W_jmp \o SP \o W_x, W_jz \o TAB \o W_y,
      W_mov \o SP \o W_al \o COMMA \o W_bl,
      W_mov \o SP \o W_bl \o COMMA \o SP \o W_1d }
LabelLine(def, stmt) ==
    IF def = << >> THEN stmt ELSE IF stmt = << >> THEN def ELSE def \o SP \o stmt
LabelLines == {LabelLine(def, stmt) : def \in LabelDefs, stmt \in LabelStatements}
LabelSources == SeqsUpTo(LabelLines, MaxLines)

\* family C: every mnemonic spelling with one label operand, the label
\* defined on the same line or on the next
W_start == <<"s","t","a","r","t">>
W_end == <<"e","n","d">>
\* `_start:\tjz\t_start`
StartSource == << <<"_">> \o W_start \o <<":">> \o TAB \o W_jz \o TAB \o <<"_">> \o W_start >>
\* `start: jmp end` and then `end:`
StartEndSource == << W_start \o <<":">> \o SP \o W_jmp \o SP \o W_end, W_end \o <<":">> >>
SpellingSources ==
    { <<W_xdef \o SP \o MnemonicNames[i] \o SP \o W_x>> : i \in 1..Len(MnemonicNames) }
    \cup { <<MnemonicNames[i] \o SP \o W_x, W_xdef>> : i \in 1..Len(MnemonicNames) }
    \cup { StartSource, StartEndSource }

\* family D: comments, and commas where a line starts
W_comment == <<";"," ","j","z">>
CommentSources ==
    { <<W_comment>>, <<W_mov \o SP \o W_bl \o COMMA \o W_1d \o W_comment>>,
      <<W_xdef \o W_comment, W_mov \o SP \o W_bl \o COMMA \o SP \o W_al \o SP \o W_comment>>,
      <<W_mov \o SP \o W_x \o W_1d \o W_comment, W_ret>> }
CommaSources ==
    { <<COMMA>>, <<COMMA \o W_al>>, <<COMMA \o SP \o W_mov, W_ret>>,
      <<W_mov \o SP \o W_al \o SP \o COMMA \o W_bl>>,
      <<W_mov \o SP \o W_1d \o W_x \o COMMA \o W_bl, W_ret>> }

\* family E: a first line that pass 1 refuses, and lines after it
AbortSources ==
    { <<W_mov \o SP \o W_al, W_ret>>,
      <<W_ret \o SP \o W_al, W_mov \o SP \o W_al \o COMMA \o SP \o W_1d>> }

\* family F: a label defined twice on one line
W_foodef == <<"f","o","o",":">>
RedefineSources ==
    { <<W_foodef \o SP \o SP \o W_foodef>>,
      <<W_xdef \o SP \o W_ydef \o SP \o W_xdef \o SP \o W_ret>>,
      <<W_ydef \o SP \o W_xdef, W_xdef \o SP \o W_xdef>> }

\* family G: the accumulator written to an output port
W_out0 == <<"o","u","t","0">>
W_out0_write == W_out0 \o <<"_","w","r","i","t","e",":">>
Out0Statement == W_mov \o SP \o W_out0 \o COMMA \o SP \o W_al
Out0Sources ==
    { <<Out0Statement>>, <<W_out0_write \o SP \o Out0Statement>>,
      <<W_xdef \o TAB \o Out0Statement \o W_comment>> }

\* family I: a comma after each count of operands
CommaPlaceSources ==
    { <<W_ret \o SP \o COMMA>>, <<W_ret \o SP \o W_al \o SP \o COMMA, W_ret>>,
      <<W_mov \o SP \o COMMA \o W_al>>, <<W_jz \o SP \o W_x \o COMMA>>,
      <<W_mov \o SP \o W_al \o COMMA \o W_bl \o COMMA, W_ret>>,
      <<W_jz \o SP \o W_x \o SP \o W_y \o COMMA \o W_x>> }

\* family H: a word that does not classify, ended in each of the four ways
W_1dx == W_1d \o W_x
BadTokenSources ==
    { <<W_mov \o SP \o W_1dx \o SP \o W_bl, W_ret>>, <<W_mov \o SP \o W_1dx, W_ret>>,
      <<W_mov \o SP \o W_1dx \o W_comment, W_ret>>,
      <<W_mov \o SP \o W_al \o COMMA \o W_1dx \o COMMA, W_ret>> }

Sources ==
    ShapeSources \cup LabelSources \cup SpellingSources \cup CommentSources
        \cup CommaSources \cup AbortSources \cup RedefineSources \cup Out0Sources
        \cup BadTokenSources \cup CommaPlaceSources

EncIdle == [pc |-> "idle"]
NumIdle == [pc |-> "idle"]
TokIdle == [pc |-> "idle"]

\* no Assembly is in anybody's hands
SaveIdle ==
    /\ assembly = [pc |-> "idle"]
    /\ disk = << >>
    /\ calls = << >>

Init ==
    /\ overflow_checks \in BOOLEAN
    /\ src \in Sources
    /\ pending = << >>
    /\ returned = << >>
    /\ lexer = LexerStart
    /\ parser = ParserStart
    /\ chan = << >>
    /\ rx_alive = TRUE
    /\ result = None
    /\ sent = << >>
    /\ stmts = << >>
    /\ enc = EncIdle
    /\ num = NumIdle
    /\ tok = TokIdle
    /\ SaveIdle

Next ==
    \/ LexSemicolon
    \/ LexComma
    \/ LexWhitespace
    \/ LexPush
    \/ LexEndOfLine
    \/ LexReturn
    \/ ParserRecvToken
    \/ ParserRecvEOL
    \/ ParserClose
    \/ Join

Spec == Init /\ [][Next]_vars

(***************************************************************************)
(* Properties of one call of assemble.                                     *)
(***************************************************************************)
\* the sources of family C whose mnemonic takes one operand: a flow
\* statement naming the label x, defined on its line or on the next
FlowSpellings ==
    { i \in 1..Len(MnemonicNames) : operands_required(MnemonicVariants[i]) = 1 }
FlowLabelSources ==
    { <<W_xdef \o SP \o MnemonicNames[i] \o SP \o W_x>> : i \in FlowSpellings }
    \cup { <<MnemonicNames[i] \o SP \o W_x, W_xdef>> : i \in FlowSpellings }
    \cup { StartSource, StartEndSource }

\* C1: a source whose one-operand flow statement names a label defined as
\* `name:` in the same source assembles, and `_start: jz _start` gives
\* 07 05 00 00.
C1_LabelUseResolves ==
    (result # None /\ src \in FlowLabelSources) =>
        /\ IsOk(result[1])
        /\ src = StartSource => result = Some(Ok(<<7, 5, 0, 0>>))

\* what the code answers to `_start: jz _start`: the label is unknown
C1_StartUnknown ==
    /\ src = StartSource
    /\ result # None /\ IsErr(result[1])
    /\ result[1][2].code = <<"UnknownLabel", <<"_">> \o W_start>>
    /\ DOMAIN parser.labels_idx = { <<"_">> \o W_start \o <<":">> }

\* the bytes a ByteCode cell becomes in the final output
CellSize(cell) == IF cell[1] = "Byte" THEN 1 ELSE 2
RECURSIVE FinalSize(_)
FinalSize(cells) ==
    IF cells = << >> THEN 0 ELSE CellSize(Head(cells)) + FinalSize(Tail(cells))

\* the line translated last holds a label definition and nothing else
LabelOnly(buffer) == Len(buffer) = 1 /\ buffer[1].kind[1] = "Label"

\* C2: the offset recorded for a label is the number of bytes of the final
\* output that the lines before its definition produce, an address
\* placeholder counting for two; stated where the line translated last is
\* only the label's definition, so that all of byte_code precedes it.
C2_LabelOffsetStability ==
    (parser.pc = "eval" /\ stmts # << >> /\ LabelOnly(Last(stmts))) =>
        parser.labels_idx[Last(stmts)[1].kind[2]] = FinalSize(parser.byte_code)

\* what the code records for `end` after `start: jmp end`: 3, not 4
C2_EndRecordedAsThree ==
    /\ src = StartEndSource
    /\ Len(stmts) = 2 /\ parser.pc = "eval"
    /\ parser.labels_idx[W_end \o <<":">>] = 3
    /\ FinalSize(parser.byte_code) = 4

\* a statement of a two-operand mnemonic whose operands are two registers,
\* with or without a comma between them
RegisterOperand(token) == token.kind[1] = "Operand" /\ token.kind[2][1] = "Register"
RegRegLine(buffer) ==
    /\ Len(buffer) \in {3, 4}
    /\ buffer[1].kind[1] = "Mnemonic" /\ operands_required(buffer[1].kind[2]) = 2
    /\ RegisterOperand(buffer[2]) /\ RegisterOperand(Last(buffer))
    /\ Len(buffer) = 4 => buffer[3].kind = <<"Comma">>

\* C6: a two-operand statement from a register to a register fails with
\* BadDestination, attributed to the destination token (the first operand
\* in source order).
C6_RegisterToRegister ==
    (result # None /\ stmts # << >> /\ RegRegLine(Last(stmts))) =>
        result = Some(Err(AssemblyError(Last(stmts)[2], <<"BadDestination">>)))

\* C6 as the specification words it: BadOrigin on the origin token (the
\* second operand in source order)
C6_BadOriginOnOrigin ==
    (result # None /\ stmts # << >> /\ RegRegLine(Last(stmts))) =>
        result = Some(Err(AssemblyError(Last(Last(stmts)), <<"BadOrigin">>)))

\* `mov bl, cl` has been refused, on `bl`
C6_Witness ==
    /\ src = <<W_mov \o SP \o W_bl \o COMMA \o SP \o W_cl>>
    /\ result = Some(Err(AssemblyError(
                    Token(<<"Operand", <<"Register", "B">>>>, <<4, 6>>, 1),
                    <<"BadDestination">>)))

\* a line of a mnemonic followed by operands only
PlainStatement(buffer) ==
    /\ Len(buffer) >= 1 /\ buffer[1].kind[1] = "Mnemonic"
    /\ \A i \in 2..Len(buffer) : buffer[i].kind[1] = "Operand"

\* C7: a line of a mnemonic and any number of operands, different from the
\* number the mnemonic requires, ends pass 1 with NotEnoughOperands(found,
\* required) attributed to the mnemonic token.
C7_OperandCount ==
    ( /\ result # None /\ stmts # << >> /\ PlainStatement(Last(stmts))
      /\ Len(Last(stmts)) - 1 # operands_required(Last(stmts)[1].kind[2]) ) =>
        result = Some(Err(AssemblyError(Last(stmts)[1],
                    <<"NotEnoughOperands", Len(Last(stmts)) - 1,
                      operands_required(Last(stmts)[1].kind[2])>>)))

\* what the code does with `mov al bl cl`: the third operand is written
\* past the two slots and the main thread panics
C7_ThirdOperandPanics ==
    /\ src = <<W_mov \o SP \o W_al \o SP \o W_bl \o SP \o W_cl>>
    /\ result = Some(<<"Panic", "parser">>)

\* the sentinels among the items sent
Sentinels(items) == {i \in 1..Len(items) : items[i].item = EOL}

\* C10: when the lexer thread has ended without a lexing error it has sent
\* exactly one EndOfLine sentinel for every line of the source.
C10_OneSentinelPerLine ==
    lexer.pc \in {"done", "panic"} => Cardinality(Sentinels(sent)) = Len(src)

\* what did hold of every send and every receipt: the items are sent in
\* source order, a sentinel after the tokens of its line, and a statement
\* holds tokens of one line only
C10_SentInSourceOrder ==
    /\ \A i \in 1..Len(sent), j \in 1..Len(sent) :
          i < j => \/ sent[i].line_no < sent[j].line_no
                   \/ /\ sent[i].line_no = sent[j].line_no
                      /\ sent[i].col <= sent[j].col
                      /\ sent[i].item # EOL
    /\ \A i \in 1..Len(sent) : sent[i].item # EOL => sent[i].item[2].line = sent[i].line_no
    /\ \A k \in 1..Len(stmts) : \A i \in 1..Len(stmts[k]) : stmts[k][i].line = k

\* the lexer panicked on `mov al` / `ret` after the parser had returned
\* its error, with one sentinel sent for two lines
C10_LexerPanicsAfterAbort ==
    /\ src = <<W_mov \o SP \o W_al, W_ret>>
    /\ lexer.pc = "panic"
    /\ result # None /\ IsErr(result[1])
    /\ Cardinality(Sentinels(sent)) = 1

\* the tokens of the lines before the k-th handed to pass 1, and of the
\* k-th before its i-th token
RECURSIVE TokensBefore(_, _, _)
TokensBefore(lines, k, i) ==
    (IF k = 1 THEN << >> ELSE TokensBefore(lines, k - 1, Len(lines[k - 1]) + 1))
        \o SubSeq(lines[k], 1, i - 1)

\* token defines a label that one of the tokens does
DefinedAmong(token, tokens) ==
    \E j \in 1..Len(tokens) : tokens[j].kind = token.kind

\* the places of the line handed last to pass 1 that hold a second
\* definition of a label, after label definitions only
Redefinitions(lines) ==
    { i \in 1..Len(Last(lines)) :
        /\ \A j \in 1..i : Last(lines)[j].kind[1] = "Label"
        /\ DefinedAmong(Last(lines)[i], TokensBefore(lines, Len(lines), i)) }

Least(S) == CHOOSE i \in S : \A j \in S : i <= j

\* C11: a label definition whose name is already defined, on its line or
\* on a line before, makes assemble fail with RedefinedLabel attributed to
\* the later definition; and RedefinedLabel is never attributed to the
\* first definition of a name.
C11_RedefinedLabel ==
    (result # None /\ stmts # << >>) =>
        /\ Redefinitions(stmts) # {} =>
              result = Some(Err(AssemblyError(Last(stmts)[Least(Redefinitions(stmts))],
                                              <<"RedefinedLabel">>)))
        /\ (IsErr(result[1]) /\ result[1][2].code = <<"RedefinedLabel">>) =>
              \E i \in 1..Len(Last(stmts)) :
                  /\ Last(stmts)[i] = result[1][2].token
                  /\ DefinedAmong(Last(stmts)[i], TokensBefore(stmts, Len(stmts), i))

\* `foo:  foo:` has been refused, on the second `foo:`
C11_Witness ==
    /\ src = <<W_foodef \o SP \o SP \o W_foodef>>
    /\ result = Some(Err(AssemblyError(Token(<<"Label", W_foodef>>, <<6, 10>>, 1),
                                       <<"RedefinedLabel">>)))

\* the text `name:` that defines the label name
Definition(name) == Append(name, ":")

\* some line handed to pass 1 defines the label name
DefinedSomewhere(name) ==
    \E k \in 1..Len(stmts) : \E i \in 1..Len(stmts[k]) :
        stmts[k][i].kind = <<"Label", Definition(name)>>

\* the address placeholders of byte_code whose label no line defines
UndefinedPlaceholders ==
    { i \in 1..Len(parser.byte_code) :
        /\ parser.byte_code[i][1] = "Addr"
        /\ ~DefinedSomewhere(parser.byte_code[i][3]) }

\* C12: when pass 1 has accepted every line and a placeholder names a
\* label that no line defines, assemble returns UnknownLabel(name) on the
\* operand token of the first such placeholder, and no bytes.
C12_UnknownLabel ==
    (parser.pass = 2 /\ result # None /\ UndefinedPlaceholders # {}) =>
        result = Some(Err(AssemblyError(
                    parser.byte_code[Least(UndefinedPlaceholders)][2],
                    <<"UnknownLabel", parser.byte_code[Least(UndefinedPlaceholders)][3]>>)))

\* what the code answers to `x: jmp x` / `jz y`: the defined x is unknown
C12_DefinedReportedFirst ==
    /\ src = <<W_xdef \o SP \o W_jmp \o SP \o W_x, W_jz \o TAB \o W_y>>
    /\ parser.pass = 2
    /\ UndefinedPlaceholders = {6}
    /\ result # None /\ IsErr(result[1])
    /\ result[1][2].code = <<"UnknownLabel", W_x>>
    /\ result[1][2].token.line = 1

\* the part of C12 that holds: when pass 2 meets a placeholder that names
\* no key of the label map, it is the first such placeholder that is
\* reported, and no bytes are returned
C12_FirstUnresolvedReported ==
    (parser.pass = 2 /\ result # None) =>
        \A i \in 1..Len(parser.byte_code) :
            ( /\ parser.byte_code[i][1] = "Addr"
              /\ parser.byte_code[i][3] \notin DOMAIN parser.labels_idx
              /\ \A j \in 1..(i - 1) : parser.byte_code[j][1] = "Addr" =>
                      parser.byte_code[j][3] \in DOMAIN parser.labels_idx ) =>
                result = Some(Err(AssemblyError(parser.byte_code[i][2],
                                    <<"UnknownLabel", parser.byte_code[i][3]>>)))

\* C13: `mov out0, al`, with or without a label definition before it on
\* its line, assembles to the one byte C3: the ALU code 110 of mov, the
\* port number 00 and the flow bits 011, without a page turn.
C13_MovOut0 ==
    (result # None /\ src \in Out0Sources) => result = Some(Ok(<<195>>))

\* C13 as the specification words it: the one byte 03
C13_MovOut0IsThree ==
    (result # None /\ src \in Out0Sources) => result = Some(Ok(<<3>>))

\* `out0_write: mov out0, al` has given the byte C3
C13_Witness ==
    /\ src = <<W_out0_write \o SP \o Out0Statement>>
    /\ DOMAIN parser.labels_idx = {W_out0_write}
    /\ result = Some(Ok(<<195>>))

\* the lexer has tried to emit the word it holds and the word does not classify
BadTokenAttempted ==
    /\ lexer.pc \in {"err", "panic"}
    /\ lexer.token # << >>
    /\ IsErr(TokenKindFromStr(lexer.token))

\* the items sent from the lexer's place on
SentFromHere ==
    { i \in 1..Len(sent) : sent[i].line_no = lexer.line_no /\ sent[i].col >= lexer.col }

\* scan has returned the error of the word it holds, and sent nothing for it
BadTokenReturned ==
    /\ lexer.pc = "err"
    /\ lexer.ret = Some(Err(AssemblyError(Token(<<"Error">>, Span, lexer.line_no),
                                          <<"Token", TokenKindFromStr(lexer.token)[2]>>)))
    /\ SentFromHere = {}

\* C15: when the lexer tries to emit a word that fails to classify, whatever
\* character ended the word (whitespace, end of line, `;` or `,`), scan returns an
\* AssemblyError with the word's span and line and the tokenizing-error kind, and
\* sends nothing further.
C15_BadTokenReturned == BadTokenAttempted => BadTokenReturned

\* the same when the word is ended by whitespace, the end of the line or `;`
C15_ReturnedUnlessComma == (BadTokenAttempted /\ Ch # ",") => BadTokenReturned

\* `mov 1dx,bl`: at the comma the lexer thread has panicked with `1dx` in hand
C15_CommaAfterBadTokenPanics ==
    /\ src = <<W_mov \o SP \o W_1dx \o COMMA \o W_bl, W_ret>>
    /\ lexer.pc = "panic" /\ lexer.ret = None
    /\ lexer.token = W_1dx /\ Ch = ","

\* the tokens of the kind before place i of a statement
KindBefore(buffer, i, kind) == { j \in 1..(i - 1) : buffer[j].kind[1] = kind }

\* the operands the mnemonic of the statement requires, once it has been seen
RequiredAt(buffer, i) ==
    operands_required(buffer[Least(KindBefore(buffer, i, "Mnemonic"))].kind[2])

\* the comma at place i stands where the statement may have one
LegalComma(buffer, i) ==
    /\ KindBefore(buffer, i, "Mnemonic") # {}
    /\ Cardinality(KindBefore(buffer, i, "Operand")) >= 1
    /\ Cardinality(KindBefore(buffer, i, "Operand")) < RequiredAt(buffer, i)

IllegalCommas(buffer) ==
    { i \in 1..Len(buffer) : buffer[i].kind[1] = "Comma" /\ ~LegalComma(buffer, i) }

\* nothing before place i has ended the line already
CleanBefore(buffer, i) ==
    /\ KindBefore(buffer, i, "Label") = {}
    /\ Cardinality(KindBefore(buffer, i, "Mnemonic")) <= 1
    /\ Cardinality(KindBefore(buffer, i, "Operand")) <= 2

\* the errors stated for an illegal comma at place i
CommaErrors(buffer, i) ==
    IF KindBefore(buffer, i, "Mnemonic") = {}
    THEN { AssemblyError(buffer[i], <<"NoMnemonic">>) }
    ELSE (IF Cardinality(KindBefore(buffer, i, "Operand")) = 0
          THEN { AssemblyError(buffer[i], <<"UnexpectedComma">>) } ELSE {})
         \cup
         (IF Cardinality(KindBefore(buffer, i, "Operand")) >= RequiredAt(buffer, i)
          THEN { AssemblyError(buffer[Least(KindBefore(buffer, i, "Mnemonic"))],
                               <<"ExcessiveOperands", RequiredAt(buffer, i)>>) }
          ELSE {})

\* the line fails at its first illegal comma with one of the errors stated for it
FailsAtComma(buffer, i) ==
    CleanBefore(buffer, i) => result \in { Some(Err(e)) : e \in CommaErrors(buffer, i) }

\* the statement translated last has an illegal comma
IllegalCommaSeen ==
    result # None /\ stmts # << >> /\ IllegalCommas(Last(stmts)) # {}

\* the source starts with a comma
LeadingComma == src # << >> /\ src[1] # << >> /\ src[1][1] = ","

\* C16: in pass 1 a comma is accepted only after the mnemonic, with at least one
\* operand taken and fewer than the mnemonic requires; any other comma fails the
\* line: NoMnemonic on the comma before a mnemonic (a leading comma included),
\* UnexpectedComma on the comma when no operand was taken, ExcessiveOperands(req)
\* on the mnemonic when the operands taken are not fewer than required.
C16_CommaLegality ==
    /\ IllegalCommaSeen => FailsAtComma(Last(stmts), Least(IllegalCommas(Last(stmts))))
    /\ (result # None /\ LeadingComma) =>
            /\ IsErr(result[1]) /\ result[1][2].code = <<"NoMnemonic">>
            /\ result[1][2].token.kind = <<"Comma">>

\* the same holds of the commas that reach the parser with no more operands
\* taken than the mnemonic requires
C16_LegalityUpToRequired ==
    ( /\ IllegalCommaSeen
      /\ Cardinality(KindBefore(Last(stmts), Least(IllegalCommas(Last(stmts))), "Operand"))
            <= IF KindBefore(Last(stmts), Least(IllegalCommas(Last(stmts))), "Mnemonic") = {}
               THEN 2
               ELSE RequiredAt(Last(stmts), Least(IllegalCommas(Last(stmts)))) ) =>
        FailsAtComma(Last(stmts), Least(IllegalCommas(Last(stmts))))

\* `ret al ,`: the comma after one operand too many was accepted and the line
\* was refused for its operand count
C16_CommaAcceptedPastRequired ==
    /\ src = <<W_ret \o SP \o W_al \o SP \o COMMA, W_ret>>
    /\ stmts = << << Token(<<"Mnemonic", "Ret">>, <<0, 3>>, 1),
                     Token(<<"Operand", <<"Accumulator">>>>, <<4, 6>>, 1),
                     Token(<<"Comma">>, <<6, 7>>, 1) >> >>
    /\ result = Some(Err(AssemblyError(Token(<<"Mnemonic", "Ret">>, <<0, 3>>, 1),
                                       <<"NotEnoughOperands", 1, 0>>)))

\* the Comma tokens among the items sent
CommasSent == { i \in 1..Len(sent) : IsOk(sent[i].item) /\ sent[i].item[2].kind = <<"Comma">> }
WordsSent == { i \in 1..Len(sent) : IsOk(sent[i].item) /\ sent[i].item[2].kind # <<"Comma">> }

\* the characters of the source under a token's span [start, end)
Covered(token) == SubSeq(src[token.line], token.span[1] + 1, token.span[2])

\* C17: every Comma token sent has the span [c, c + 1), c the 0-based place of the
\* comma in its line, as every other token's span covers the token's own
\* characters; so too for a comma at column 0.
C17_CommaSpan ==
    /\ \A i \in CommasSent : sent[i].item[2].span = <<sent[i].col, sent[i].col + 1>>
    /\ (LeadingComma /\ lexer.pc # "scan") => 1 \in CommasSent

\* every other token's span covers the characters it was made of
C17_WordSpans ==
    \A i \in WordsSent :
        TokenKindFromStr(MapLower(Covered(sent[i].item[2]))) = Ok(sent[i].item[2].kind)

\* `mov al ,bl`: the comma at place 7 was sent with the span [6, 7), the blank
\* before it
C17_CommaSpanOneShort ==
    /\ src = <<W_mov \o SP \o W_al \o SP \o COMMA \o W_bl>>
    /\ src[1][8] = ","
    /\ \E i \in CommasSent : sent[i].col = 7 /\ sent[i].item[2].span = <<6, 7>>

\* a comma at column 0: nothing was sent for it in a build with overflow checks,
\* and a span starting at usize::MAX in a build without
C17_LeadingCommaLost ==
    /\ src = <<COMMA>> /\ lexer.pc # "scan"
    /\ IF overflow_checks THEN lexer.pc = "panic" /\ sent = << >>
       ELSE \E i \in CommasSent : sent[i].item[2].span = <<-1, 0>>

\* pass 1 has ended assemble with an error of its own
PassOneAborted == result # None /\ IsErr(result[1]) /\ parser.pass = 1

\* C18: when pass 1 aborts with its own error while the lexer is running,
\* assemble does not return before the lexer thread has finished, and the lexer
\* never attempts a send after the Receiver has gone away.
C18_LexerJoinedOnAbort ==
    /\ PassOneAborted => ~SenderAlive
    /\ lexer.panic # Some(ParserStopped)

\* `mov al` / `ret`: assemble has returned NotEnoughOperands(1, 2) with the lexer
\* still on line 2, and the lexer then panicked on its send
C18_SendAfterReturn ==
    /\ src = <<W_mov \o SP \o W_al, W_ret>>
    /\ result = Some(Err(AssemblyError(Token(<<"Mnemonic", "Mov">>, <<0, 3>>, 1),
                                       <<"NotEnoughOperands", 1, 2>>)))
    /\ ~rx_alive /\ lexer.line_no = 2
    /\ lexer.panic = Some(ParserStopped)

\* the same call at the moment assemble returned: the lexer thread is running
C18_ReturnedWhileRunning ==
    /\ src = <<W_mov \o SP \o W_al, W_ret>>
    /\ PassOneAborted /\ SenderAlive

(***************************************************************************)
(* The same source assembled again: the program is run a second time, the  *)
(* threads scheduled as they may.                                          *)
(***************************************************************************)
MaxRuns == 2

\* assembly.rs 15-21: the call is over and both threads have ended; what it
\* returned is kept with the number of items the lexer got to send, and assemble
\* is entered again with the same source
Rerun ==
    /\ result # None /\ ~SenderAlive /\ Len(returned) + 1 < MaxRuns
    /\ returned' = Append(returned, [src |-> src, result |-> result[1], sent |-> Len(sent)])
    /\ Enter(src)
    /\ UNCHANGED <<assembly, disk, calls, tok, overflow_checks, pending, enc, num>>

NextRerun == Next \/ Rerun

SpecRerun == Init /\ [][NextRerun]_vars

\* C20: for every source the result of assemble (the bytes, or the error code with
\* its token's line and span, or the panic) is the same however the lexer thread
\* and the parser were interleaved.
C20_ResultSchedulingFree ==
    \A i \in 1..Len(returned) :
        (result # None /\ returned[i].src = src) => returned[i].result = result[1]

\* `mov al` / `ret` assembled twice: first the parser refused line 1 when the
\* lexer had sent that line only, then after the lexer had sent both lines and
\* returned; NotEnoughOperands(1, 2) both times
C20_Witness ==
    /\ src = <<W_mov \o SP \o W_al, W_ret>>
    /\ Len(returned) = 1 /\ returned[1].sent = 3
    /\ Len(sent) = 5 /\ lexer.pc = "done"
    /\ result = Some(Err(AssemblyError(Token(<<"Mnemonic", "Mov">>, <<0, 3>>, 1),
                                       <<"NotEnoughOperands", 1, 2>>)))
    /\ returned[1].result = result[1]

(***************************************************************************)
(* Two calls of assemble, one after the other: a source, then a variant    *)
(* of it (a comment appended to a line, or letters in another case).       *)
(***************************************************************************)
MaxTwinLines == 2

TwinLines ==
    { << >>, W_ret, W_xdef, W_jz \o TAB \o W_y,
      W_mov \o SP \o W_bl \o COMMA \o SP \o W_1d,
      W_xdef \o SP \o W_add \o SP \o W_al \o COMMA \o W_bl \o SP,
      W_mov \o SP \o W_bl \o COMMA \o SP \o W_cl,
      W_mov \o SP \o W_1d \o W_x \o COMMA \o W_al }
TwinBases == SeqsUpTo(TwinLines, MaxTwinLines) \ {<< >>}

CommentTexts == { <<";">>, W_comment, <<";", ",", "1", "x", ":">> }
CommentVariants(base) ==
    { [base EXCEPT ![k] = base[k] \o text] : k \in 1..Len(base), text \in CommentTexts }

\* upper case at the places 1, 3, 5, ... of a line
OddUpper(line) ==
    [i \in 1..Len(line) |-> IF i % 2 = 1 THEN to_ascii_uppercase(line[i]) ELSE line[i]]
CaseVariants(base) ==
    { [k \in 1..Len(base) |-> MapUpper(base[k])],
      [k \in 1..Len(base) |-> OddUpper(base[k])] }

TwinPairs ==
    UNION { { <<base, variant>> : variant \in CommentVariants(base) \cup CaseVariants(base) }
            : base \in TwinBases } \cup
    UNION { { pair \in CaseVariants(base) \X CaseVariants(base) : pair[1] # pair[2] }
            : base \in TwinBases }

InitTwin ==
    /\ overflow_checks \in BOOLEAN
    /\ \E pair \in TwinPairs : src = pair[1] /\ pending = <<pair[2]>>
    /\ returned = << >>
    /\ lexer = LexerStart
    /\ parser = ParserStart
    /\ chan = << >>
    /\ rx_alive = TRUE
    /\ result = None
    /\ sent = << >>
    /\ stmts = << >>
    /\ enc = EncIdle
    /\ num = NumIdle
    /\ tok = TokIdle
    /\ SaveIdle

NextTwin == Next \/ NextCall

SpecTwin == InitTwin /\ [][NextTwin]_vars

\* b is a with `;` and some characters appended to one of its lines
CommentAppended(a, b) ==
    /\ Len(a) = Len(b)
    /\ \E k \in 1..Len(a) :
        /\ \A j \in 1..Len(a) : j # k => b[j] = a[j]
        /\ Len(b[k]) > Len(a[k])
        /\ SubSeq(b[k], 1, Len(a[k])) = a[k]
        /\ b[k][Len(a[k]) + 1] = ";"

\* a and b differ in the case of letters only
SameUpToCase(a, b) ==
    /\ Len(a) = Len(b)
    /\ \A k \in 1..Len(a) : MapLower(a[k]) = MapLower(b[k])

\* C8: a source that assembles gives the same bytes after `;` and any
\* characters are appended to one of its lines.
C8_CommentIdempotence ==
    ( /\ returned # << >> /\ result # None
      /\ IsOk(returned[1].result)
      /\ CommentAppended(returned[1].src, src) ) =>
        result[1] = returned[1].result

\* `mov bl, 1d` and then `mov bl, 1d; jz` have both given 07 C1 01
C8_Witness ==
    /\ returned # << >>
    /\ returned[1].src = <<W_mov \o SP \o W_bl \o COMMA \o SP \o W_1d>>
    /\ src = <<W_mov \o SP \o W_bl \o COMMA \o SP \o W_1d \o W_comment>>
    /\ returned[1].result = Ok(<<7, 193, 1>>)
    /\ result = Some(Ok(<<7, 193, 1>>))

\* C9: two sources that differ only in the case of their letters give the
\* same result: the same bytes, or the same error on the same token.
C9_CaseInsensitivity ==
    ( /\ returned # << >> /\ result # None
      /\ SameUpToCase(returned[1].src, src) ) =>
        result[1] = returned[1].result

\* `mov bl, 1d` and then `MOV BL, 1D` have both given 07 C1 01
C9_Witness ==
    /\ returned # << >>
    /\ returned[1].src = <<W_mov \o SP \o W_bl \o COMMA \o SP \o W_1d>>
    /\ src = <<MapUpper(W_mov \o SP \o W_bl \o COMMA \o SP \o W_1d)>>
    /\ src # returned[1].src
    /\ result = Some(Ok(<<7, 193, 1>>))

(***************************************************************************)
(* The encoder on its own: the calls translate_buffer makes on one         *)
(* Instruction (parser.rs 91-110), for every mnemonic and every pair of    *)
(* operands the token model can produce.                                   *)
(***************************************************************************)
EncBytes == {0, 1, 10, 255}
EncRegisters == {"B", "C", "D", "E"}
EncPorts == {<<dir, n>> : dir \in {"Input", "Output"}, n \in 0..3}
EncPrimitives ==
    { <<"Accumulator">>, <<"DynamicMemoryAccumulator">>, <<"Label", W_x>> }
        \cup { <<"Number", b>> : b \in EncBytes }
        \cup { <<"Memory", m>> : m \in EncBytes }
        \cup { <<"Register", r>> : r \in EncRegisters }
        \cup { <<"DynamicMemory", r>> : r \in EncRegisters }
        \cup { <<"Port", port>> : port \in EncPorts }

\* no call of assemble is running
AssemblerIdle ==
    /\ overflow_checks = FALSE
    /\ src = << >>
    /\ pending = << >>
    /\ returned = << >>
    /\ lexer = LexerStart
    /\ parser = ParserStart
    /\ chan = << >>
    /\ rx_alive = TRUE
    /\ result = None
    /\ sent = << >>
    /\ stmts = << >>

InitEncoder ==
    /\ AssemblerIdle
    /\ num = NumIdle
    /\ tok = TokIdle
    /\ SaveIdle
    /\ \E mnemonic \in Mnemonics, origin \in EncPrimitives, dest \in EncPrimitives :
        /\ operands_required(mnemonic) # 2 =>
                origin = <<"Label", W_x>> /\ dest = <<"Label", W_x>>
        /\ enc = [pc |-> "new", mnemonic |-> mnemonic, origin |-> origin,
                  dest |-> dest, inst |-> NewInstruction, res |-> None,
                  bytes |-> None]

\* parser.rs 91: Instruction::new().encode_mnemonic(mnemonic)
EncMnemonic ==
    /\ enc.pc = "new"
    /\ enc' = [enc EXCEPT !.pc = "mnemonic",
                          !.inst = encode_mnemonic(enc.inst, enc.mnemonic)]
    /\ UNCHANGED <<assembly, disk, calls, tok, overflow_checks, src, pending, returned, lexer, chan, rx_alive,
                   parser, result, sent, stmts, num>>

\* the encoder after try_encode_data_flow answered flow
Flowed(flow) ==
    IF IsOk(flow)
    THEN enc' = [enc EXCEPT !.pc = "flow", !.inst = flow[2], !.res = Some(flow)]
    ELSE enc' = [enc EXCEPT !.pc = "rejected", !.res = Some(flow)]

\* parser.rs 94-96: two operands, the data flow is encoded
EncDataFlow ==
    /\ enc.pc = "mnemonic" /\ operands_required(enc.mnemonic) = 2
    /\ Flowed(try_encode_data_flow(enc.inst, enc.origin, enc.dest))
    /\ UNCHANGED <<assembly, disk, calls, tok, overflow_checks, src, pending, returned, lexer, chan, rx_alive,
                   parser, result, sent, stmts, num>>

\* parser.rs 97 and 107: the instruction is finalized
EncAsBytes ==
    /\ \/ enc.pc = "flow"
       \/ enc.pc = "mnemonic" /\ operands_required(enc.mnemonic) = 1
    /\ enc' = [enc EXCEPT !.pc = "bytes", !.bytes = Some(as_bytes(enc.inst))]
    /\ UNCHANGED <<assembly, disk, calls, tok, overflow_checks, src, pending, returned, lexer, chan, rx_alive,
                   parser, result, sent, stmts, num>>

NextEncoder == EncMnemonic \/ EncDataFlow \/ EncAsBytes

SpecEncoder == InitEncoder /\ [][NextEncoder]_vars

\* the byte of a finalized instruction at place k, counted from 1
EncByteAt(k) == enc.bytes[1][k]
EncHas(field) == IF field # None THEN 1 ELSE 0

\* C3: the bytes of every finalized instruction are decoder_page copies of
\* 0x07, then the main byte, then the ROM byte if there is one, then the RAM
\* word as its high byte and its low byte if there is one, and nothing
\* else: the length is page + 1 + has_rom + 2 * has_ram.
C3_AsBytesLayout ==
    enc.pc = "bytes" =>
        /\ Len(enc.bytes[1]) = enc.inst.decoder_page + 1 + EncHas(enc.inst.rom)
                                   + 2 * EncHas(enc.inst.ram)
        /\ \A k \in 1..enc.inst.decoder_page : EncByteAt(k) = 7
        /\ EncByteAt(enc.inst.decoder_page + 1) = enc.inst.main
        /\ enc.inst.rom # None =>
                EncByteAt(enc.inst.decoder_page + 2) = enc.inst.rom[1]
        /\ enc.inst.ram # None =>
                /\ EncByteAt(Len(enc.bytes[1]) - 1) = enc.inst.ram[1] \div 256
                /\ EncByteAt(Len(enc.bytes[1])) = enc.inst.ram[1] % 256

\* a finalized instruction with a page turn, a ROM byte and a RAM word
C3_Witness ==
    /\ enc.pc = "bytes"
    /\ enc.inst.decoder_page = 1
    /\ enc.inst.rom = Some(255)
    /\ enc.inst.ram = Some(10)
    /\ enc.bytes = Some(<<7, 194, 255, 0, 10>>)

\* the data-flow table: <<flow bits, page override>> of a listed pair
FlowTable(origin, dest) ==
    CASE origin[1] = "Accumulator" /\ dest[1] = "Accumulator" -> Some(<<0, 0>>)
      [] origin[1] = "Accumulator" /\ dest[1] = "Register" -> Some(<<1, 0>>)
      [] origin[1] = "Accumulator" /\ dest[1] = "Memory" -> Some(<<2, 0>>)
      [] origin[1] = "Accumulator" /\ dest[1] = "Port" /\ dest[2][1] = "Output"
            -> Some(<<3, 0>>)
      [] origin[1] = "Accumulator" /\ dest[1] = "DynamicMemory" -> Some(<<2, 2>>)
      [] origin[1] = "Register" /\ dest[1] = "Accumulator" -> Some(<<4, 0>>)
      [] origin[1] = "Memory" /\ dest[1] = "Accumulator" -> Some(<<5, 0>>)
      [] origin[1] = "Port" /\ origin[2][1] = "Input" /\ dest[1] = "Accumulator"
            -> Some(<<6, 0>>)
      [] origin[1] = "Number" /\ dest[1] = "Accumulator" -> Some(<<0, 1>>)
      [] origin[1] = "Number" /\ dest[1] = "Register" -> Some(<<1, 1>>)
      [] origin[1] = "Number" /\ dest[1] = "Memory" -> Some(<<2, 1>>)
      [] origin[1] = "DynamicMemory" /\ dest[1] = "Accumulator" -> Some(<<1, 2>>)
      [] OTHER -> None

\* bits 4-3 of a primitive: 0..3 for B..E and for ports 0..3, else none
RegisterNumber(r) == CASE r = "B" -> 0 [] r = "C" -> 1 [] r = "D" -> 2 [] r = "E" -> 3
SelectorOf(prim) ==
    IF prim[1] \in {"Register", "DynamicMemory"} THEN Some(RegisterNumber(prim[2]))
    ELSE IF prim[1] = "Port" THEN Some(prim[2][2])
    ELSE None
Selector(origin, dest) ==
    IF SelectorOf(origin) # None THEN SelectorOf(origin)[1]
    ELSE IF SelectorOf(dest) # None THEN SelectorOf(dest)[1]
    ELSE 0

\* bits 7-5 of an ALU mnemonic
AluCode(mnemonic) ==
    CASE mnemonic = "Add" -> 0 [] mnemonic = "Sub" -> 1 [] mnemonic = "And" -> 2
      [] mnemonic = "Or" -> 3 [] mnemonic = "Xor" -> 4 [] mnemonic = "Not" -> 5
      [] mnemonic = "Mov" -> 6 [] mnemonic = "Inc" -> 7

\* C4: for every ALU mnemonic and every pair of the data-flow table, the
\* data flow is accepted, the main byte is the ALU code in bits 7-5, the
\* register or port number in bits 4-3 (00 without one) and the table's
\* flow bits in bits 2-0, the page is the table's, rom is set exactly for a
\* Number origin and ram exactly for a Memory origin or destination.
C4_DataFlowEncoding ==
    ( /\ enc.pc \in {"flow", "rejected"}
      /\ enc.mnemonic \in AluMnemonics
      /\ FlowTable(enc.origin, enc.dest) # None ) =>
        /\ enc.pc = "flow"
        /\ enc.inst.main = AluCode(enc.mnemonic) * 32
                            + Selector(enc.origin, enc.dest) * 8
                            + FlowTable(enc.origin, enc.dest)[1][1]
        /\ enc.inst.decoder_page = FlowTable(enc.origin, enc.dest)[1][2]
        /\ enc.inst.rom = (IF enc.origin[1] = "Number" THEN Some(enc.origin[2]) ELSE None)
        /\ enc.inst.ram = (IF enc.origin[1] = "Memory" THEN Some(enc.origin[2])
                           ELSE IF enc.dest[1] = "Memory" THEN Some(enc.dest[2])
                           ELSE None)

\* `mov out2, al` has gone through both encoding steps
C4_Witness ==
    /\ enc.pc = "flow"
    /\ enc.mnemonic = "Mov"
    /\ enc.origin = <<"Accumulator">>
    /\ enc.dest = <<"Port", <<"Output", 2>>>>
    /\ enc.inst.main = 211

(***************************************************************************)
(* Number literals on their own: every byte value written in each of the   *)
(* six forms and handed to Primitive::from_str, as try_send does with the  *)
(* text of a token.                                                        *)
(***************************************************************************)
MaxPad == 1
NumberForms == {"plain", "d", "h", "0x", "b", "0b"}

DigitChar(d) == (DigitChars \o LowerCase)[d + 1]

RECURSIVE Digits(_, _)
\* the digits of v in radix, most significant first
Digits(v, radix) ==
    IF v < radix THEN <<DigitChar(v)>>
    ELSE Append(Digits(v \div radix, radix), DigitChar(v % radix))

Padded(digits, pad) == Repeat("0", pad) \o digits

\* `<hexdigits>h` has to start with a digit
DigitFirst(digits) == IF is_ascii_digit(digits[1]) THEN digits ELSE <<"0">> \o digits

\* the value v written in a form, with pad leading zeros
Written(v, form, pad) ==
    CASE form = "plain" -> Padded(Digits(v, 10), pad)
      [] form = "d" -> Append(Padded(Digits(v, 10), pad), "d")
      [] form = "h" -> Append(DigitFirst(Padded(Digits(v, 16), pad)), "h")
      [] form = "0x" -> <<"0", "x">> \o Padded(Digits(v, 16), pad)
      [] form = "b" -> Append(Padded(Digits(v, 2), pad), "b")
      [] form = "0b" -> <<"0", "b">> \o Padded(Digits(v, 2), pad)

InitNumber ==
    /\ AssemblerIdle
    /\ enc = EncIdle
    /\ tok = TokIdle
    /\ SaveIdle
    /\ \E v \in 0..255, form \in NumberForms, pad \in 0..MaxPad :
        num = [pc |-> "written", v |-> v, form |-> form,
               text |-> Written(v, form, pad), res |-> None]

\* token.rs 256-301: the text is parsed as a Primitive
NumParse ==
    /\ num.pc = "written"
    /\ num' = [num EXCEPT !.pc = "parsed", !.res = Some(PrimitiveFromStr(num.text))]
    /\ UNCHANGED <<assembly, disk, calls, tok, overflow_checks, src, pending, returned, lexer, chan, rx_alive,
                   parser, result, sent, stmts, enc>>

NextNumber == NumParse

SpecNumber == InitNumber /\ [][NextNumber]_vars

\* C5: every byte value parses to Number(v) from each of its six written
\* forms: plain decimal digits, decimal digits and `d`, hex digits and `h`,
\* `0x` and hex digits, binary digits and `b`, `0b` and binary digits.
C5_NumberFormEquivalence ==
    num.pc = "parsed" => num.res = Some(Ok(<<"Number", num.v>>))

\* the forms try_to_number does read: every form but the plain digits, and
\* `0x` only when the last hex digit is neither b nor d
C5_FormsRead ==
    num.pc = "parsed" =>
        ( num.res = Some(Ok(<<"Number", num.v>>))
            <=> ~ \/ num.form = "plain"
                  \/ num.form = "0x" /\ Last(num.text) \in {"b", "d"} )

\* the plain decimal `10` has been parsed, and refused
C5_PlainRefused ==
    /\ num.pc = "parsed"
    /\ num.text = <<"1", "0">>
    /\ num.res = Some(Err("BadNumber"))

(***************************************************************************)
(* The deferred save.  An Assembly returned by assemble is in its owner's  *)
(* hands: the owner calls then_save_as, discard_save_path and to_logisim   *)
(* in any order, and then lets the value go out of scope.                  *)
(***************************************************************************)
MaxCalls == 3

\* buffers that assemble returns (for "", "mov al cl" and a three-byte move)
AssembledData == { << >>, <<204>>, <<7, 193, 1>> }
SavePaths == {"a.bin", "b.bin"}

\* assembly.rs 112-118: nibble_to_ascii
nibble_to_ascii(nibble) == IF nibble <= 9 THEN 48 + nibble ELSE 97 + nibble - 10

\* assembly.rs 108-110: byte_as_hexadecimal, the pair (hi, lo)
byte_as_hexadecimal(byte) == <<nibble_to_ascii(byte \div 16), nibble_to_ascii(byte % 16)>>

\* assembly.rs 34-39: one byte of the buffer as text, the high digit dropped when '0'
LogisimCell(hex) == (IF hex[1] # 48 THEN <<hex[1]>> ELSE << >>) \o <<hex[2], 32>>

RECURSIVE LogisimCells(_)
LogisimCells(data) ==
    IF data = << >> THEN << >>
    ELSE LogisimCell(byte_as_hexadecimal(Head(data))) \o LogisimCells(Tail(data))

\* assembly.rs 30-43: b"v2.0 raw\r\n" and then the cells
to_logisim(data) == <<118, 50, 46, 48, 32, 114, 97, 119, 13, 10>> \o LogisimCells(data)

\* assembly.rs 20: Ok(Assembly { data, path: None })
InitSave ==
    /\ AssemblerIdle
    /\ enc = EncIdle
    /\ num = NumIdle
    /\ tok = TokIdle
    /\ \E data \in AssembledData : assembly = [pc |-> "live", data |-> data, path |-> None]
    /\ disk = << >>
    /\ calls = << >>

Callable == assembly.pc = "live" /\ Len(calls) < MaxCalls

\* a mistaken then_save_as that keeps a path already attached
ThenSaveAsKeeping(path) ==
    /\ Callable
    /\ assembly' = [assembly EXCEPT !.path = IF @ = None THEN Some(path) ELSE @]
    /\ calls' = Append(calls, <<"then_save_as", path>>)
    /\ UNCHANGED <<disk, tok, overflow_checks, src, pending, returned, lexer, chan,
                   rx_alive, parser, result, sent, stmts, enc, num>>

\* assembly.rs 45-51: then_save_as
ThenSaveAs(path) ==
    /\ Callable
    /\ assembly' = [assembly EXCEPT !.path = Some(path)]
    /\ calls' = Append(calls, <<"then_save_as", path>>)
    /\ UNCHANGED <<disk, tok, overflow_checks, src, pending, returned, lexer, chan,
                   rx_alive, parser, result, sent, stmts, enc, num>>

\* assembly.rs 53-56: discard_save_path
DiscardSavePath ==
    /\ Callable
    /\ assembly' = [assembly EXCEPT !.path = None]
    /\ calls' = Append(calls, <<"discard_save_path">>)
    /\ UNCHANGED <<disk, tok, overflow_checks, src, pending, returned, lexer, chan,
                   rx_alive, parser, result, sent, stmts, enc, num>>

\* assembly.rs 30-43: to_logisim rewrites the buffer in place
ToLogisim ==
    /\ Callable
    /\ assembly' = [assembly EXCEPT !.data = to_logisim(@)]
    /\ calls' = Append(calls, <<"to_logisim">>)
    /\ UNCHANGED <<disk, tok, overflow_checks, src, pending, returned, lexer, chan,
                   rx_alive, parser, result, sent, stmts, enc, num>>

\* assembly.rs 79-86: drop takes the path and, if there was one, writes the buffer
Drop ==
    /\ assembly.pc = "live"
    /\ disk' = IF assembly.path # None
               THEN Append(disk, [path |-> assembly.path[1], contents |-> assembly.data])
               ELSE disk
    /\ assembly' = [assembly EXCEPT !.pc = "dropped", !.path = None]
    /\ UNCHANGED <<calls, tok, overflow_checks, src, pending, returned, lexer, chan,
                   rx_alive, parser, result, sent, stmts, enc, num>>

NextSave ==
    \/ \E path \in SavePaths : ThenSaveAs(path)
    \/ DiscardSavePath
    \/ ToLogisim
    \/ Drop

SpecSave == InitSave /\ [][NextSave]_vars

\* the calls that attach or clear the path, in the order made
RECURSIVE PathCalls(_)
PathCalls(cs) ==
    IF cs = << >> THEN << >>
    ELSE (IF Head(cs)[1] \in {"then_save_as", "discard_save_path"} THEN <<Head(cs)>> ELSE << >>)
         \o PathCalls(Tail(cs))

LastPathCall(cs) == IF cs = << >> THEN <<"none">> ELSE cs[Len(cs)]

\* what the disk must hold once the Assembly is gone, given the last path call
SavedBy(last, data) ==
    IF last[1] = "then_save_as" THEN <<[path |-> last[2], contents |-> data]>> ELSE << >>

\* C14: nothing is written while the Assembly lives; dropping it writes exactly once
\* if and only if the most recent of the then_save_as/discard_save_path calls was
\* then_save_as, to that call's path and with the buffer as it is at drop time;
\* otherwise nothing is written.
C14_DeferredSave ==
    /\ assembly.pc = "live" => disk = << >>
    /\ assembly.pc = "dropped" => disk = SavedBy(LastPathCall(PathCalls(calls)), assembly.data)

\* a path attached, replaced by another, the buffer rewritten, then the drop:
\* the rewritten buffer of "mov al cl" went to the second path
C14_Witness ==
    /\ assembly.pc = "dropped"
    /\ calls = <<<<"then_save_as", "a.bin">>, <<"then_save_as", "b.bin">>, <<"to_logisim">>>>
    /\ disk = <<[path |-> "b.bin",
                 contents |-> <<118, 50, 46, 48, 32, 114, 97, 119, 13, 10, 99, 99, 32>>]>>

(***************************************************************************)
(* Words and label definitions.  A word is classified as the lexer hands   *)
(* it to TokenKind::from_str, once as written (a reference) and once with  *)
(* a colon after it (a definition).                                        *)
(***************************************************************************)
MaxWordLen == 3

TokAlphabet == {"a", "x", "_", "0", "4", "-"}
RECURSIVE WordsOfLen(_)
WordsOfLen(n) ==
    IF n = 0 THEN { << >> }
    ELSE { Append(w, ch) : w \in WordsOfLen(n - 1), ch \in TokAlphabet }

W_foo4 == <<"f","o","o","4">>
TokWords ==
    UNION { WordsOfLen(n) : n \in 0..MaxWordLen }
    \cup { W_foo4, W_out0, W_mov, W_al, W_bl, W_start,
           <<"i","n","3">>, <<"i","n","4">>, <<"a","h">>, <<"b","h">>,
           <<"r","a","x">>, <<"c","x">> }

InitToken ==
    /\ AssemblerIdle
    /\ enc = EncIdle
    /\ num = NumIdle
    /\ SaveIdle
    /\ \E text \in TokWords :
        tok = [pc |-> "written", text |-> text, reference |-> None, definition |-> None]

\* token.rs 56-58 and 92-111: the word is parsed as it stands, unless it is empty
\* (try_send sends nothing for an empty accumulator), and with its colon
TokParse ==
    /\ tok.pc = "written"
    /\ tok' = [tok EXCEPT
                 !.pc = "parsed",
                 !.reference = IF tok.text = << >> THEN None
                               ELSE Some(TokenKindFromStr(tok.text)),
                 !.definition = Some(TokenKindFromStr(Append(tok.text, ":")))]
    /\ UNCHANGED <<assembly, disk, calls, overflow_checks, src, pending, returned, lexer,
                   chan, rx_alive, parser, result, sent, stmts, enc, num>>

NextToken == TokParse

SpecToken == InitToken /\ [][NextToken]_vars

\* label-legal: a letter or `_`, then letters, digits and `_`
IsLetter(ch) == InSeq(ch, LowerCase) \/ InSeq(ch, UpperCase)
LabelLegal(text) ==
    /\ Len(text) >= 1
    /\ IsLetter(text[1]) \/ text[1] = "_"
    /\ \A i \in 2..Len(text) : IsLetter(text[i]) \/ InSeq(text[i], DigitChars) \/ text[i] = "_"

\* the names that mean something else: mnemonics, the accumulator and the
\* registers in every width, the ports in0..in3 and out0..out3
ReservedWord(text) ==
    \/ \E i \in 1..Len(MnemonicNames) : MnemonicNames[i] = text
    \/ text \in { <<"a","l">>, <<"a","h">>, <<"a","x">>, <<"e","a","x">>, <<"r","a","x">>,
                  <<"b","l">>, <<"c","l">>, <<"d","l">>, <<"e","l">> }
    \/ text \in WideRegisterNames \cup HighRegisterNames
    \/ /\ Len(text) >= 1
       /\ Front(text) \in { <<"i","n">>, <<"o","u","t">> }
       /\ Last(text) \in {"0", "1", "2", "3"}

\* C19: every label-legal word that is not a mnemonic, an accumulator or register
\* name or a port in0..in3/out0..out3 parses as Operand(Label(name)); so every such
\* name accepted as a definition `name:` is accepted as a reference `name`, and a
\* definition is accepted only when the text before its colon is label-legal.
C19_LabelLegalIsLabel ==
    tok.pc = "parsed" =>
        /\ (LabelLegal(tok.text) /\ ~ReservedWord(tok.text)) =>
                tok.reference = Some(Ok(<<"Operand", <<"Label", tok.text>>>>))
        /\ (IsOk(tok.definition[1]) /\ ~ReservedWord(tok.text)) =>
                tok.reference # None /\ IsOk(tok.reference[1])
        /\ IsOk(tok.definition[1]) => LabelLegal(tok.text)

\* what holds of the label-legal words that do not end in a digit from 4 to 9
C19_LabelUnlessHighDigit ==
    ( /\ tok.pc = "parsed" /\ LabelLegal(tok.text) /\ ~ReservedWord(tok.text)
      /\ Last(tok.text) \notin {"4", "5", "6", "7", "8", "9"} ) =>
        /\ tok.reference = Some(Ok(<<"Operand", <<"Label", tok.text>>>>))
        /\ tok.definition = Some(Ok(<<"Label", Append(tok.text, ":")>>))

\* `foo4` is defined by `foo4:` and refused as a reference with BadPort
C19_Foo4IsBadPort ==
    /\ tok.pc = "parsed" /\ tok.text = W_foo4
    /\ tok.definition = Some(Ok(<<"Label", Append(W_foo4, ":")>>))
    /\ tok.reference = Some(Err("BadPort"))

\* `:` alone is taken as the definition of a label with no name
C19_EmptyNameDefined ==
    /\ tok.pc = "parsed" /\ tok.text = << >>
    /\ tok.definition = Some(Ok(<<"Label", <<":">>>>))

====
